---- MODULE Spec2Model ----
(***************************************************************************)
(* A model of client/src/net.rs: the NetworkState held in the application  *)
(* Model, NetworkEvent::reducer, open_ws and the three closure builders,   *)
(* together with the WebSocket objects and wasm-bindgen Closure handles    *)
(* they act on.                                                            *)
(*                                                                         *)
(* The program is single threaded: open_ws runs to completion before the   *)
(* host event loop delivers any WebSocket event, and AppState::update runs *)
(* the reducer synchronously inside the call that dispatches the event.    *)
(***************************************************************************)
EXTENDS Integers, Sequences, FiniteSets, TLC

\* ------------------------------------------------------------------ bounds
MaxSockets == 2      \* open_ws calls in one behaviour
MaxSent == 2         \* successful sends in one behaviour
MaxClosuresR == 2    \* length of the closure list in the reducer-only states

\* --------------------------------------------------------------- constants
NoSocket == 0        \* Option<WebSocket>::None

Sockets == 1..MaxSockets

\* Mutant of the order of the four blocks of open_ws: error before message.
Slots_error_first == <<"onopen", "onclose", "onerror", "onmessage">>

Slots == <<"onopen", "onclose", "onmessage", "onerror">>

SlotSet == {Slots[i] : i \in 1..Len(Slots)}

\* A closure handle: the Rc<WSClosure> built for slot s of socket ws.
Handles == {<<ws, s>> : ws \in Sockets, s \in SlotSet}

InputTexts == {"", "hi"}

Requests == {"req1", "req2"}

\* The data of a MessageEvent: is it an ArrayBuffer, and do its bytes decode
\* to a ResponseFrame.
Payloads == {[binary |-> b, decodes |-> d] : b \in BOOLEAN, d \in BOOLEAN}

Range(s) == {s[i] : i \in 1..Len(s)}

VARIABLES
  model,      \* Model: network (connected, socket, closures), input_text, msg_tx_cnt
  ready,      \* readyState of every WebSocket ("NONE" before it is constructed)
  registered, \* per socket, the slots that hold a handler
  live,       \* closure handles whose Closure has not been dropped
  pc,         \* position of the running open_ws call ("idle" when none runs,
              \* "aborted" when WebSocket::new failed)
  cur,        \* the socket the running open_ws call constructed
  panicked,   \* an unwrap or expect panicked (the wasm instance aborted)
  last,       \* the last event the store processed, the Model before it, the Update
  lastCb,     \* the last handler invocation by the host and its outcome
  lifecycle,  \* the most recent of the Connected / Disconnected events processed
  announced,  \* sockets whose NewSocket event the reducer has processed
  sinceDisc,  \* sockets constructed since the last Disconnected was processed
  discSeen,   \* a Disconnected event has been processed
  published,  \* per socket, the NewClosure events processed for its handlers
  tx_ok       \* the frames send_with_u8_array has accepted

vars == <<model, ready, registered, live, pc, cur, panicked, last,
          lastCb, lifecycle, announced, sinceDisc, discSeen, published, tx_ok>>

\* ---------------------------------------------------------------- events
Connected == [type |-> "Connected"]
Disconnected == [type |-> "Disconnected"]
NewSocket(ws) == [type |-> "NewSocket", ws |-> ws]
NewClosure(cb) == [type |-> "NewClosure", cb |-> cb]
SendRequest(req) == [type |-> "SendRequest", req |-> req]
ServerMsg == [type |-> "ServerMsg"]

\* NetworkState::default()
DefaultNetworkState == [connected |-> FALSE, socket |-> NoSocket, closures |-> <<>>]

\* WebSocket.send throws InvalidStateError while the socket is CONNECTING;
\* in every later readyState it returns normally.
send_with_u8_array(rs) == IF rs = "CONNECTING" THEN "Err" ELSE "Ok"

\* ---------------------------------------------------------------- reducer
\* Each arm yields the Model after the arm, the Update it returns ("Panic"
\* when the arm panics) and the socket a frame was handed to.
Outcome(m, upd, sent) == [model |-> m, upd |-> upd, sent |-> sent]

reduce_Connected(m) ==
  Outcome([m EXCEPT !.network.connected = TRUE], "Render", NoSocket)

\* Mutants of the Disconnected arm: the socket is kept; the closures are
\* kept; connected is flipped instead of cleared.
reduce_Disconnected_keeps_socket(m) ==
  Outcome([m EXCEPT !.network.connected = FALSE,
                    !.network.closures = <<>>], "Render", NoSocket)

reduce_Disconnected_keeps_closures(m) ==
  Outcome([m EXCEPT !.network.connected = FALSE,
                    !.network.socket = NoSocket], "Render", NoSocket)

reduce_Disconnected_flips(m) ==
  Outcome([m EXCEPT !.network.connected = ~@,
                    !.network.socket = NoSocket,
                    !.network.closures = <<>>], "Render", NoSocket)

reduce_Disconnected(m) ==
  Outcome([m EXCEPT !.network.connected = FALSE,
                    !.network.socket = NoSocket,
                    !.network.closures = <<>>], "Render", NoSocket)

\* Mutants of the NewSocket arm: a populated socket is taken for a live
\* connection; the closures of the socket it replaces are cleared.
reduce_NewSocket_connects(m, ws) ==
  Outcome([m EXCEPT !.network.socket = ws, !.network.connected = TRUE],
          "Render", NoSocket)

reduce_NewSocket_clears(m, ws) ==
  Outcome([m EXCEPT !.network.socket = ws, !.network.closures = <<>>],
          "Render", NoSocket)

reduce_NewSocket(m, ws) ==
  Outcome([m EXCEPT !.network.socket = ws], "Render", NoSocket)

\* Mutant of the NewClosure arm: only the latest closure is kept.
reduce_NewClosure_replaces(m, cb) ==
  Outcome([m EXCEPT !.network.closures = <<cb>>], "Skip", NoSocket)

reduce_NewClosure(m, cb) ==
  Outcome([m EXCEPT !.network.closures = Append(@, cb)], "Skip", NoSocket)

\* Mutant of the SendRequest arm: without a socket the send is skipped but
\* the input is still cleared and counted.
reduce_SendRequest_counts_skipped(m, rdy) ==
  LET ws == m.network.socket IN
  IF ws # NoSocket /\ send_with_u8_array(rdy[ws]) = "Err"
  THEN Outcome(m, "Panic", NoSocket)
  ELSE Outcome([m EXCEPT !.input_text = "", !.msg_tx_cnt = @ + 1], "Render", ws)

reduce_SendRequest(m, rdy) ==
  LET ws == m.network.socket IN
  IF ws = NoSocket THEN Outcome(m, "Skip", NoSocket)
  ELSE IF send_with_u8_array(rdy[ws]) = "Err" THEN Outcome(m, "Panic", NoSocket)
  ELSE Outcome([m EXCEPT !.input_text = "", !.msg_tx_cnt = @ + 1], "Render", ws)

reducer(event, m, rdy) ==
  CASE event.type = "Connected" -> reduce_Connected(m)
    [] event.type = "Disconnected" -> reduce_Disconnected(m)
    [] event.type = "NewSocket" -> reduce_NewSocket(m, event.ws)
    [] event.type = "NewClosure" -> reduce_NewClosure(m, event.cb)
    [] event.type = "SendRequest" -> reduce_SendRequest(m, rdy)

\* The application's reducer routes ModelEvent::Network to the reducer above;
\* ModelEvent::ServerMsg is interpreted outside the network state.
app_update(event, m, rdy) ==
  IF event.type = "ServerMsg" THEN Outcome(m, "App", NoSocket)
  ELSE reducer(event, m, rdy)

\* AppState::update: the store processes one event, synchronously.  src is
\* the socket whose handler or open_ws call dispatched it (NoSocket for the
\* application), lv the closures alive when the event is dispatched.  The
\* closures the event removes from the Model are dropped: each Rc<WSClosure>
\* has the Model's Vec as its only owner.  A closure dropped while it runs
\* (the close handler processing its own Disconnected) finishes that
\* invocation.  A panic in the reducer aborts the program: no later step is
\* modelled.  last records the step.
update(event, src, lv) ==
  LET r == app_update(event, model, ready) IN
  /\ model' = r.model
  /\ live' = lv \ (Range(model.network.closures) \ Range(r.model.network.closures))
  /\ panicked' = (r.upd = "Panic")
  /\ last' = [event |-> event, src |-> src, pre |-> model, post |-> r.model,
              upd |-> r.upd, sent |-> r.sent, prev |-> last.event.type,
              tick |-> 1 - last.tick]

\* What a run of the whole program has seen of the events processed so far.
Observe(event) ==
  /\ lifecycle' = IF event.type \in {"Connected", "Disconnected"}
                  THEN event.type ELSE lifecycle
  /\ announced' = IF event.type = "NewSocket" THEN announced \cup {event.ws}
                  ELSE announced
  /\ discSeen' = (discSeen \/ event.type = "Disconnected")
  /\ sinceDisc' = IF event.type = "Disconnected" THEN {}
                  ELSE IF event.type = "NewSocket" THEN sinceDisc \cup {event.ws}
                  ELSE sinceDisc
  /\ published' = IF event.type = "NewClosure"
                  THEN [published EXCEPT ![event.cb[1]] = @ + 1]
                  ELSE published
  /\ tx_ok' = IF last'.sent # NoSocket THEN tx_ok + 1 ELSE tx_ok

\* state.update(..) as the handlers and open_ws call it.
dispatch(event, src, lv) == update(event, src, lv) /\ Observe(event)

DefaultModel == [network |-> DefaultNetworkState, input_text |-> "", msg_tx_cnt |-> 0]

\* The record of the last event before any event was processed.
NoEvent == [event |-> [type |-> "None"], src |-> NoSocket, pre |-> DefaultModel,
            post |-> DefaultModel, upd |-> "None", sent |-> NoSocket,
            prev |-> "None", tick |-> 0]

NoPayload == [binary |-> FALSE, decodes |-> FALSE]

NoCallback == [ws |-> NoSocket, slot |-> "none", payload |-> NoPayload,
               outcome |-> "none", event |-> "None", same |-> TRUE]

\* The record of one handler invocation: what the host fired, how the
\* invocation ended, the event the store processed during it ("None" when it
\* processed none) and whether the Model is the same after it.
Invocation(ws, slot, payload, outcome) ==
  [ws |-> ws, slot |-> slot, payload |-> payload, outcome |-> outcome,
   event |-> IF last'.tick # last.tick THEN last'.event.type ELSE "None",
   same |-> (model' = model)]

\* ------------------------------------------------------- closure builders
\* The bodies of the handlers; each runs with the socket ws it is set on.
build_on_open(ws, lv) == dispatch(Connected, ws, lv)

build_on_close(ws, lv) == dispatch(Disconnected, ws, lv)

\* "dispatched" when the frame reaches the store, "dropped" on the two
\* early returns.
on_message_outcome_undecoded(payload) ==
  IF ~payload.binary THEN "dropped" ELSE "dispatched"

on_message_outcome(payload) ==
  IF ~payload.binary THEN "dropped"
  ELSE IF ~payload.decodes THEN "dropped"
  ELSE "dispatched"

Unchanged_store ==
  UNCHANGED <<model, live, panicked, last, lifecycle, announced, discSeen,
              sinceDisc, published, tx_ok>>

build_on_message(ws, payload, lv) ==
  IF on_message_outcome(payload) = "dispatched"
  THEN dispatch(ServerMsg, ws, lv)
  ELSE Unchanged_store

\* Mutant of the builders open_ws uses: the error handler is built as the
\* open handler.
Builder_error_as_open(slot) ==
  CASE slot = "onopen" -> "build_on_open"
    [] slot = "onclose" -> "build_on_close"
    [] slot = "onmessage" -> "build_on_message"
    [] slot = "onerror" -> "build_on_open"

\* The builder open_ws uses for each slot.
Builder(slot) ==
  CASE slot = "onopen" -> "build_on_open"
    [] slot = "onclose" -> "build_on_close"
    [] slot = "onmessage" -> "build_on_message"
    [] slot = "onerror" -> "build_on_close"

\* ----------------------------------------------------------------- open_ws
\* WebSocket::new(WS_URL) returns Err (the host's constructor threw): the
\* unwrap panics before a socket exists, a handler is set or an event is
\* published, and the call ends there.
open_ws_new_fails ==
  /\ pc = "idle" /\ ~panicked
  /\ pc' = "aborted"
  /\ panicked' = TRUE
  /\ UNCHANGED <<model, ready, registered, live, cur, last, lastCb, lifecycle,
                 announced, sinceDisc, discSeen, published, tx_ok>>

\* Mutant of the first block of open_ws: the socket is constructed and the
\* NewSocket event is not published.
open_ws_socket_unpublished ==
  \/ /\ pc = "idle" /\ ~panicked
     /\ \E ws \in Sockets :
          /\ ready[ws] = "NONE"
          /\ \A o \in Sockets : o < ws => ready[o] # "NONE"
          /\ ready' = [ready EXCEPT ![ws] = "CONNECTING"]
          /\ cur' = ws
     /\ pc' = Slots[1]
     /\ Unchanged_store
     /\ UNCHANGED <<registered, lastCb>>
  \/ open_ws_new_fails

\* The first block of open_ws: WebSocket::new either returns the socket,
\* which gets its binary type and is published with NewSocket, or fails.
open_ws_socket ==
  \/ /\ pc = "idle" /\ ~panicked
     /\ \E ws \in Sockets :
          /\ ready[ws] = "NONE"
          /\ \A o \in Sockets : o < ws => ready[o] # "NONE"
          /\ ready' = [ready EXCEPT ![ws] = "CONNECTING"]
          /\ cur' = ws
          /\ dispatch(NewSocket(ws), ws, live)
     /\ pc' = Slots[1]
     /\ UNCHANGED <<registered, lastCb>>
  \/ open_ws_new_fails

NextSlot(slot) ==
  LET i == CHOOSE k \in 1..Len(Slots) : Slots[k] = slot IN
  IF i = Len(Slots) THEN "idle" ELSE Slots[i + 1]

\* One of the four blocks: build the closure, set it on the socket, publish
\* it with NetworkEvent::new_closure.
open_ws_closure ==
  /\ pc \in SlotSet /\ ~panicked
  /\ registered' = [registered EXCEPT ![cur] = @ \cup {pc}]
  /\ dispatch(NewClosure(<<cur, pc>>), cur, live \cup {<<cur, pc>>})
  /\ pc' = NextSlot(pc)
  /\ UNCHANGED <<ready, cur, lastCb>>

\* ------------------------------------------------------ host event loop
\* The host invokes the handler set on slot of ws.  A handler whose Closure
\* was dropped throws in the JS shim and runs no Rust code.
Fire(ws, slot, payload) ==
  /\ pc = "idle" /\ ~panicked
  /\ slot \in registered[ws]
  /\ IF <<ws, slot>> \notin live
     THEN /\ Unchanged_store
          /\ lastCb' = Invocation(ws, slot, payload, "threw")
     ELSE CASE Builder(slot) = "build_on_open" ->
                 /\ build_on_open(ws, live)
                 /\ lastCb' = Invocation(ws, slot, payload, "dispatched")
            [] Builder(slot) = "build_on_close" ->
                 /\ build_on_close(ws, live)
                 /\ lastCb' = Invocation(ws, slot, payload, "dispatched")
            [] Builder(slot) = "build_on_message" ->
                 /\ build_on_message(ws, payload, live)
                 /\ lastCb' = Invocation(ws, slot, payload, on_message_outcome(payload))
  /\ UNCHANGED <<registered, pc, cur>>

WsOpen ==
  \E ws \in Sockets :
    /\ ready[ws] = "CONNECTING"
    /\ ready' = [ready EXCEPT ![ws] = "OPEN"]
    /\ Fire(ws, "onopen", NoPayload)

WsMessage ==
  \E ws \in Sockets, payload \in Payloads :
    /\ ready[ws] = "OPEN"
    /\ ready' = ready
    /\ Fire(ws, "onmessage", payload)

\* A failed connection: readyState becomes CLOSED, error fires, close follows.
WsError ==
  \E ws \in Sockets :
    /\ ready[ws] \in {"CONNECTING", "OPEN"}
    /\ ready' = [ready EXCEPT ![ws] = "FAILED"]
    /\ Fire(ws, "onerror", NoPayload)

WsClose ==
  \E ws \in Sockets :
    /\ ready[ws] \in {"OPEN", "FAILED"}
    /\ ready' = [ready EXCEPT ![ws] = "CLOSED"]
    /\ Fire(ws, "onclose", NoPayload)

\* ------------------------------------------------------------ application
\* The application dispatches SendRequest for the text the user entered.
AppSendRequest ==
  /\ pc = "idle" /\ ~panicked
  /\ model.msg_tx_cnt < MaxSent
  /\ \E req \in Requests : dispatch(SendRequest(req), NoSocket, live)
  /\ UNCHANGED <<ready, registered, pc, cur, lastCb>>

\* The input widget writes the pending-input buffer.
SetInput ==
  /\ pc = "idle" /\ ~panicked
  /\ \E txt \in InputTexts :
       /\ txt # model.input_text
       /\ model' = [model EXCEPT !.input_text = txt]
  /\ UNCHANGED <<ready, registered, live, pc, cur, panicked, last, lastCb,
                 lifecycle, announced, sinceDisc, discSeen, published, tx_ok>>

Init ==
  /\ model = DefaultModel
  /\ ready = [ws \in Sockets |-> "NONE"]
  /\ registered = [ws \in Sockets |-> {}]
  /\ live = {}
  /\ pc = "idle"
  /\ cur = NoSocket
  /\ panicked = FALSE
  /\ last = NoEvent
  /\ lastCb = NoCallback
  /\ lifecycle = "None"
  /\ announced = {}
  /\ sinceDisc = {}
  /\ discSeen = FALSE
  /\ published = [ws \in Sockets |-> 0]
  /\ tx_ok = 0

Next ==
  \/ open_ws_socket
  \/ open_ws_closure
  \/ WsOpen
  \/ WsMessage
  \/ WsError
  \/ WsClose
  \/ AppSendRequest
  \/ SetInput

Spec == Init /\ [][Next]_vars

\* ------------------------------------------------- the reducer on its own
\* NetworkEvent::reducer is a public function of the Model and the event:
\* this specification applies it, event by event, to every Model within the
\* bounds, whether or not open_ws and the handlers can produce that Model.
RegistrationOrder ==
  [i \in 1..(MaxSockets * Len(Slots)) |->
     <<((i - 1) \div Len(Slots)) + 1, Slots[((i - 1) % Len(Slots)) + 1]>>]

\* The closure lists of the Models the reducer is applied to.
ClosureLists == {SubSeq(RegistrationOrder, 1, n) : n \in 0..MaxClosuresR}

InitR ==
  /\ model \in [network : [connected : BOOLEAN,
                           socket : {NoSocket} \cup Sockets,
                           closures : ClosureLists],
                input_text : InputTexts,
                msg_tx_cnt : 0..MaxSent]
  /\ \E rs \in {"CONNECTING", "OPEN", "CLOSED"} : ready = [ws \in Sockets |-> rs]
  /\ registered = [ws \in Sockets |-> SlotSet]
  /\ live = Range(model.network.closures)
  /\ pc = "idle"
  /\ cur = NoSocket
  /\ panicked = FALSE
  /\ last = NoEvent
  /\ lastCb = NoCallback
  /\ lifecycle = "None"
  /\ announced = {}
  /\ sinceDisc = {}
  /\ discSeen = FALSE
  /\ published = [ws \in Sockets |-> 0]
  /\ tx_ok = 0

\* One application of the reducer.
Apply(event) ==
  /\ update(event, NoSocket, live \cup (IF event.type = "NewClosure" THEN {event.cb} ELSE {}))
  /\ UNCHANGED <<ready, registered, pc, cur, lastCb, lifecycle, announced,
                 sinceDisc, discSeen, published, tx_ok>>

\* A behaviour applies the reducer at most twice, and never after a panic.
Applicable == ~panicked /\ last.prev = "None"

ApplyConnected ==
  /\ Applicable
  /\ Apply(Connected)

ApplyDisconnected ==
  /\ Applicable
  /\ Apply(Disconnected)

ApplyNewSocket ==
  /\ Applicable
  /\ \E ws \in Sockets : Apply(NewSocket(ws))

ApplyNewClosure ==
  /\ Applicable
  /\ \E cb \in Handles : Apply(NewClosure(cb))

ApplySendRequest ==
  /\ Applicable
  /\ \E req \in Requests : Apply(SendRequest(req))

NextR ==
  \/ ApplyConnected
  \/ ApplyDisconnected
  \/ ApplyNewSocket
  \/ ApplyNewClosure
  \/ ApplySendRequest

SpecR == InitR /\ [][NextR]_vars

\* ------------------------------------------------------------------ claims
Processed(type) == last.event.type = type

NetworkUnchanged == last.post.network = last.pre.network

\* C1: processing Disconnected, from any Model, yields connected = false,
\* no socket and no closures, returns Render, and leaves msg_tx_cnt and
\* input_text as they were.
C1_DisconnectedResets ==
  Processed("Disconnected") =>
    /\ last.post.network.connected = FALSE
    /\ last.post.network.socket = NoSocket
    /\ last.post.network.closures = <<>>
    /\ last.upd = "Render"
    /\ last.post.msg_tx_cnt = last.pre.msg_tx_cnt
    /\ last.post.input_text = last.pre.input_text
    /\ model = last.post

C1_Witness ==
  /\ Processed("Disconnected")
  /\ last.pre.network.connected
  /\ last.pre.network.socket # NoSocket
  /\ Len(last.pre.network.closures) = MaxClosuresR
  /\ last.pre.msg_tx_cnt > 0
  /\ last.pre.input_text # ""

\* C2: processing SendRequest in a Model without a socket changes nothing,
\* hands no frame to any socket and returns Skip.
C2_SendWithoutSocketSkips ==
  Processed("SendRequest") /\ last.pre.network.socket = NoSocket =>
    /\ last.post = last.pre
    /\ model = last.pre
    /\ last.sent = NoSocket
    /\ last.upd = "Skip"
    /\ ~panicked

C2_Witness ==
  /\ Processed("SendRequest")
  /\ last.pre.network.socket = NoSocket
  /\ last.pre.network.connected
  /\ last.pre.input_text # ""
  /\ last.pre.network.closures # <<>>

\* C3 (as claimed): processing SendRequest in any Model that holds a socket,
\* whatever connected is, adds exactly 1 to msg_tx_cnt, clears input_text,
\* returns Render and leaves connected, socket and closures as they were.
C3_SendWithSocketCounts ==
  Processed("SendRequest") /\ last.pre.network.socket # NoSocket =>
    /\ last.post.msg_tx_cnt = last.pre.msg_tx_cnt + 1
    /\ last.post.input_text = ""
    /\ last.upd = "Render"
    /\ NetworkUnchanged

\* C4: connected is true exactly when the most recent of the Connected and
\* Disconnected events processed so far is Connected.
C4_ConnectedIffLastLifecycle ==
  model.network.connected <=> (lifecycle = "Connected")

C4_Witness ==
  /\ model.network.connected
  /\ discSeen
  /\ Processed("SendRequest")
  /\ last.upd = "Render"

\* C5: processing NewClosure(cb), from any Model, appends cb after the
\* closures already held, leaves connected, socket and msg_tx_cnt as they
\* were and returns Skip.
C5_NewClosureAppends ==
  Processed("NewClosure") =>
    /\ last.post.network.closures = Append(last.pre.network.closures, last.event.cb)
    /\ last.post.network.connected = last.pre.network.connected
    /\ last.post.network.socket = last.pre.network.socket
    /\ last.post.msg_tx_cnt = last.pre.msg_tx_cnt
    /\ last.upd = "Skip"
    /\ model = last.post

C5_Witness ==
  /\ Processed("NewClosure")
  /\ Len(last.pre.network.closures) >= 2
  /\ last.event.cb \notin Range(last.pre.network.closures)
  /\ last.pre.network.connected

\* C6: processing NewSocket(ws), from any Model, sets socket to ws and
\* returns Render, leaving connected, closures and msg_tx_cnt as they were,
\* also when a socket is already held.
C6_NewSocketReplaces ==
  Processed("NewSocket") =>
    /\ last.post.network.socket = last.event.ws
    /\ last.upd = "Render"
    /\ last.post.network.connected = last.pre.network.connected
    /\ last.post.network.closures = last.pre.network.closures
    /\ last.post.msg_tx_cnt = last.pre.msg_tx_cnt
    /\ model = last.post

C6_Witness ==
  /\ Processed("NewSocket")
  /\ last.pre.network.socket \notin {NoSocket, last.event.ws}
  /\ last.pre.network.connected
  /\ last.pre.network.closures # <<>>

\* C7: Disconnected is idempotent: on the Model with connected = false, no
\* socket and no closures it yields the same Model and Render, and a
\* Disconnected processed right after a Disconnected changes nothing.
C7_DisconnectedIdempotent ==
  /\ Processed("Disconnected") /\ last.pre.network = DefaultNetworkState =>
       last.post = last.pre /\ last.upd = "Render"
  /\ Processed("Disconnected") /\ last.prev = "Disconnected" =>
       last.post = last.pre /\ model = last.pre

C7_Witness ==
  /\ Processed("Disconnected")
  /\ last.prev = "Disconnected"
  /\ last.pre.network = DefaultNetworkState
  /\ last.pre.msg_tx_cnt > 0

\* C8: a message whose data is no ArrayBuffer, or whose bytes do not decode,
\* is dropped by the message handler: the store processes no event, the
\* Model is unchanged and the handler returns; what the message handler
\* dispatches is the decoded frame of a message that is binary and decodes.
Malformed(payload) == ~payload.binary \/ ~payload.decodes

C8_MalformedMessageDropped ==
  lastCb.slot = "onmessage" =>
    /\ Malformed(lastCb.payload) =>
         /\ lastCb.event = "None"
         /\ lastCb.same
         /\ lastCb.outcome # "threw" => lastCb.outcome = "dropped"
    /\ lastCb.event # "None" =>
         /\ lastCb.event = "ServerMsg"
         /\ ~Malformed(lastCb.payload)

C8_Witness ==
  /\ lastCb.slot = "onmessage"
  /\ lastCb.payload.binary /\ ~lastCb.payload.decodes
  /\ lastCb.outcome = "dropped"
  /\ model.network.connected
  /\ model.network.socket = lastCb.ws

\* C9: the reducer has processed the NewSocket event of a socket before
\* it processes any Connected, Disconnected or ServerMsg event dispatched by
\* a handler of that socket.
C9_NewSocketFirst ==
  last.event.type \in {"Connected", "Disconnected", "ServerMsg"} =>
    last.src \in announced

C9_Witness ==
  /\ Processed("ServerMsg")
  /\ last.src = MaxSockets
  /\ last.src \in announced
  /\ discSeen

\* C10: once a Disconnected has been processed, connected stays false and
\* the socket absent until open_ws is called again, and an event that makes
\* connected true or the socket present comes from a socket open_ws
\* constructed after that Disconnected.
C10_IdleUntilFreshOpen ==
  [][/\ discSeen' /\ sinceDisc' = {} =>
          ~model'.network.connected /\ model'.network.socket = NoSocket
     /\ discSeen /\ (\/ ~model.network.connected /\ model'.network.connected
                     \/ model.network.socket = NoSocket
                          /\ model'.network.socket # NoSocket) =>
          last'.src \in sinceDisc']_vars

C10_Witness ==
  /\ discSeen
  /\ model.network.connected
  /\ Processed("Connected")
  /\ last.src \in sinceDisc
  /\ lastCb.outcome = "dispatched"
  /\ \E ws \in Sockets : ready[ws] = "CLOSED"

EventProcessed == last'.tick # last.tick

HandlesOf(ws) == {<<ws, s>> : s \in SlotSet}

\* C11: every open_ws call constructs exactly one socket and has exactly one
\* NewSocket event processed, for that socket; no step of an open_ws call
\* changes the readyState of another socket, the handlers set on it or the
\* closures alive, so the sockets of two calls both still reach the store.
C11_OneSocketPerOpen ==
  [][LET new == {ws \in Sockets : ready[ws] = "NONE" /\ ready'[ws] # "NONE"}
         published_now == EventProcessed /\ last'.event.type = "NewSocket"
         called == pc = "idle" /\ pc' # "idle"
     IN /\ called => new # {} /\ published_now
        /\ (new # {}) <=> published_now
        /\ published_now =>
             /\ called
             /\ new = {last'.event.ws}
             /\ last'.event.ws \notin announced
        /\ (pc # "idle" \/ pc' # "idle") =>
             /\ \A o \in Sockets \ {cur'} :
                  ready'[o] = ready[o] /\ registered'[o] = registered[o]
             /\ live \subseteq live']_vars

\* C12: an open_ws call sets the four handlers open, close, message, error
\* on the socket it constructed (a call whose WebSocket::new failed has no
\* socket and builds no closure) and has exactly four NewClosure events
\* processed, all of them before any
\* Connected, Disconnected or ServerMsg of its socket; until a Disconnected,
\* closures is the handles of the calls made, four per call, in that order.
RegistrationSeq(ws) ==
  <<<<ws, "onopen">>, <<ws, "onclose">>, <<ws, "onmessage">>, <<ws, "onerror">>>>

RECURSIVE PublishedSince(_)
PublishedSince(ws) ==
  IF ws > MaxSockets THEN <<>>
  ELSE (IF ws \in sinceDisc THEN SubSeq(RegistrationSeq(ws), 1, published[ws])
        ELSE <<>>) \o PublishedSince(ws + 1)

C12_ClosuresPublished ==
  /\ \A ws \in Sockets : published[ws] <= 4
  /\ pc = "idle" =>
       \A ws \in Sockets : ready[ws] # "NONE" =>
          /\ registered[ws] = {"onopen", "onclose", "onmessage", "onerror"}
          /\ published[ws] = 4
  /\ last.event.type \in {"Connected", "Disconnected", "ServerMsg"} =>
       published[last.src] = 4
  /\ model.network.closures = PublishedSince(1)

C12_Witness ==
  /\ pc = "idle"
  /\ ~discSeen
  /\ Len(model.network.closures) = 4 * MaxSockets
  /\ Processed("ServerMsg")
  /\ last.src = 1

\* C13: with the status Disconnected (no socket, connected false),
\* Connecting (a socket, connected false) and Connected (connected true),
\* every step of a run of open_ws calls and socket events keeps the status
\* or follows Disconnected -> Connecting, Connecting -> Connected,
\* Connecting -> Disconnected or Connected -> Disconnected.
Status(network) ==
  IF network.connected THEN "Connected"
  ELSE IF network.socket = NoSocket THEN "Disconnected"
  ELSE "Connecting"

StatusEdges ==
  {<<"Disconnected", "Connecting">>, <<"Connecting", "Connected">>,
   <<"Connecting", "Disconnected">>, <<"Connected", "Disconnected">>}

C13_StatusEdges ==
  [][\/ Status(model'.network) = Status(model.network)
     \/ <<Status(model.network), Status(model'.network)>> \in StatusEdges]_vars

C13_Witness ==
  /\ Status(model.network) = "Disconnected"
  /\ discSeen
  /\ lastCb.slot = "onopen"
  /\ lastCb.outcome = "threw"

\* C14 (as claimed): the socket goes from present to absent in exactly the
\* steps in which the Disconnected arm takes connected from true to false.
SocketCleared ==
  last.pre.network.socket # NoSocket /\ last.post.network.socket = NoSocket

C14_ClearedIffConnectedFalls ==
  SocketCleared <=>
    /\ Processed("Disconnected")
    /\ last.pre.network.connected
    /\ ~last.post.network.connected

\* C14 (amended): the socket goes from present to absent in exactly the
\* steps that process Disconnected while a socket is held; connected is
\* false after such a step, whether it was true or already false before.
C14_ClearedIffDisconnected ==
  /\ SocketCleared <=>
       Processed("Disconnected") /\ last.pre.network.socket # NoSocket
  /\ SocketCleared => ~last.post.network.connected

C14_Witness ==
  /\ Processed("Disconnected")
  /\ last.pre.network.socket # NoSocket
  /\ ~last.pre.network.connected
  /\ last.post.network.socket = NoSocket

\* C15 (as claimed): closures holds only handles created for the socket the
\* Model holds, and is empty whenever the Model holds no socket.
C15_ClosuresOfHeldSocket ==
  /\ \A cb \in Range(model.network.closures) : cb[1] = model.network.socket
  /\ model.network.socket = NoSocket => model.network.closures = <<>>

\* C16: the error handler is handled as the close handler is: either one,
\* fired in any state, has exactly the event Disconnected processed, which
\* carries no payload and leaves the Model the Disconnected arm yields.
ClosesAsDisconnected(slot) ==
  lastCb' # lastCb /\ lastCb'.slot = slot /\ lastCb'.outcome = "dispatched" =>
    /\ EventProcessed
    /\ last'.event = [type |-> "Disconnected"]
    /\ last'.src = lastCb'.ws
    /\ last'.upd = "Render"
    /\ model'.network = DefaultNetworkState
    /\ model'.input_text = model.input_text
    /\ model'.msg_tx_cnt = model.msg_tx_cnt
    /\ live' = live \ Range(model.network.closures)

C16_ErrorAsClose ==
  [][ClosesAsDisconnected("onerror") /\ ClosesAsDisconnected("onclose")]_vars

C16_Witness ==
  /\ lastCb.slot = "onerror"
  /\ lastCb.outcome = "dispatched"
  /\ Processed("Disconnected")
  /\ last.pre.network.connected
  /\ Len(last.pre.network.closures) = 4 * MaxSockets

\* C17: in every reachable state connected = true implies that a socket is
\* held, for any interleaving of open_ws calls and socket events.
C17_ConnectedHoldsSocket ==
  model.network.connected => model.network.socket # NoSocket

C17_Witness ==
  /\ model.network.connected
  /\ model.network.socket # NoSocket
  /\ discSeen
  /\ lastCb.outcome = "threw"
  /\ lastCb.ws # model.network.socket

\* C18 (as claimed): no handler is invoked after its closure was released:
\* a handler set on a socket that can still fire events is alive, and no
\* invocation finds its closure dropped.
CanStillFire(ws) == ready[ws] \in {"CONNECTING", "OPEN", "FAILED"}

C18_NoReleasedHandlerFires ==
  /\ \A ws \in Sockets : CanStillFire(ws) =>
       \A slot \in registered[ws] : <<ws, slot>> \in live
  /\ lastCb.outcome # "threw"

\* C19 (as claimed): a SendRequest processed while connected is false is
\* skipped: it hands no frame to a socket, leaves msg_tx_cnt as it was and
\* returns Skip; frames are handed to a socket only while connected is true.
C19_SendNeedsConnection ==
  /\ last.sent # NoSocket => last.pre.network.connected
  /\ Processed("SendRequest") /\ ~last.pre.network.connected =>
       /\ last.sent = NoSocket
       /\ last.post.msg_tx_cnt = last.pre.msg_tx_cnt
       /\ last.upd = "Skip"

\* C20: msg_tx_cnt never decreases, changes only in a step that processes a
\* SendRequest whose frame a socket accepted, by exactly 1, and so always
\* equals the number of frames accepted.
C20_CounterCountsSends ==
  [][/\ model'.msg_tx_cnt >= model.msg_tx_cnt
     /\ model'.msg_tx_cnt # model.msg_tx_cnt =>
          /\ EventProcessed
          /\ last'.event.type = "SendRequest"
          /\ last'.pre.network.socket # NoSocket
          /\ last'.sent = last'.pre.network.socket
          /\ model'.msg_tx_cnt = model.msg_tx_cnt + 1
     /\ model'.msg_tx_cnt = tx_ok']_vars

C20_Witness ==
  /\ model.msg_tx_cnt >= 1
  /\ tx_ok = model.msg_tx_cnt
  /\ discSeen
  /\ Processed("SendRequest")
  /\ last.upd = "Skip"
  /\ last.prev = "Disconnected"
====
